---- MODULE Spec2Model ----
(***************************************************************************)
(* Model of ImageWordAligner (src/quick_cuts/aligner.py, the same class is *)
(* repeated in src/quick_cuts_backend.py): one aligner instance, the       *)
(* threads that call process_images on it and the thread that calls        *)
(* cancel().  Every step of process_images / process_single_image between  *)
(* two reads of the cancellation flag is one action, so that cancel() and  *)
(* a second process_images call interleave wherever they can in the code.  *)
(***************************************************************************)
EXTENDS Integers, Sequences, FiniteSets, TLC

\* ------------------------------------------------------------------ bounds
\* Longest batch (len(image_paths)) a call is given.
MaxLen == 2
\* Number of cancel() calls made on the instance.
MaxCancels == 1

\* The threads calling process_images on the one instance.
Callers == {"t1", "t2"}

\* ------------------------------------------------------------ the file system
\* A path is the sequence of its components, a component the sequence of its
\* characters.  NonePath is an element of image_paths that is no str / PathLike
\* (Path(None) raises TypeError).
NonePath == [isPath |-> FALSE, parts |-> <<>>]

MkPath(dir, name) == [isPath |-> TRUE, parts |-> <<dir, name>>]

\* What the environment holds at each path: the kinds are the outcomes of
\* cv2.imdecode / pytesseract / cv2.resize / cv2.imwrite / cv2.imencode, which
\* the image and its path decide.
ImageKinds ==
    << [path |-> MkPath(<<"i","n">>, <<"a",".","j","p","g">>),     kind |-> "ok"],
       [path |-> MkPath(<<"i","n">>, <<"b",".","p","n","g">>),     kind |-> "notfound"],
       [path |-> MkPath(<<"u">>,     <<"c",".","t",".","j","p","g">>), kind |-> "fallback"],
       [path |-> MkPath(<<"i","n">>, <<"d">>),                     kind |-> "undecodable"],
       [path |-> MkPath(<<"u">>,     <<"e",".","j","p","g">>),     kind |-> "composefail"],
       [path |-> MkPath(<<"i","n">>, <<"f",".","x">>),             kind |-> "encodefail"],
       [path |-> NonePath,                                         kind |-> "invalid"],
       [path |-> MkPath(<<"u">>,     <<"a",".","j","p","g">>),     kind |-> "ok"] >>

NKinds == Len(ImageKinds)

KindOf(path) ==
    (CHOOSE k \in 1..NKinds : ImageKinds[k].path = path)

ImageKind(path) == ImageKinds[KindOf(path)].kind

\* The batches a caller may pass: every window of at most MaxLen consecutive
\* images of the (cyclic) table, so that every kind occurs at every position.
Window(start, n) == [j \in 1..n |-> ImageKinds[((start + j - 2) % NKinds) + 1].path]

BatchInputs == { Window(s, n) : s \in 1..NKinds, n \in 0..MaxLen }

Backgrounds == {"white", "black", "dominant", "transparent"}

\* The constructor calls considered: every background, with and without a sink.
Configs ==
    { [background |-> "white",       progress_callback |-> "none"],
      [background |-> "black",       progress_callback |-> "sink"],
      [background |-> "dominant",    progress_callback |-> "sink"],
      [background |-> "transparent", progress_callback |-> "sink"] }

\* ------------------------------------------------------------------ helpers
\* Path(image_path).name: the last component.
PathName(path) == path.parts[Len(path.parts)]

\* The (success, filename, detail) tuples of process_single_image.  The detail
\* texts "Word '<target>' not found" and "Error processing <name>: <e>" are
\* shortened; a success entry carries the detected word.
NoEntry == [success |-> FALSE, filename |-> <<>>, detail |-> "none"]

CancelledEntry(path) ==
    [success |-> FALSE, filename |-> PathName(path), detail |-> "Processing cancelled"]

NotFoundEntry(path) ==
    [success |-> FALSE, filename |-> PathName(path), detail |-> "Word not found"]

ErrorEntry(path) ==
    [success |-> FALSE, filename |-> PathName(path), detail |-> "Error processing"]

SuccessEntry(path) ==
    [success |-> TRUE, filename |-> PathName(path), detail |-> "detected"]

\* s.rsplit('.', 1)[0]: what precedes the last '.', the whole of s without one.
Dots(s) == { k \in 1..Len(s) : s[k] = "." }

Max(S) == CHOOSE m \in S : \A x \in S : x <= m

RSplitHead(s) == IF Dots(s) = {} THEN s ELSE SubSeq(s, 1, Max(Dots(s)) - 1)

OutputFilename(filename, bg) ==
    LET plain == <<"a","l","i","g","n","e","d","_">> \o filename
    IN  IF bg = "transparent" THEN RSplitHead(plain) \o <<".","p","n","g">> ELSE plain

\* --------------------------------------------------- double-precision floats
\* Python's float is the IEEE 754 double: 53 significant bits, every operation
\* rounded to the nearest double, ties to even.  A non-negative double is kept
\* as m * 2^e with m an unbounded natural, which is a sequence of limbs, least
\* significant first, so that no intermediate value leaves TLC's integers.
DoubleBits == 53

LimbBits == 15

LimbBase == 2^LimbBits

RECURSIVE IntBitLength(_)
IntBitLength(n) == IF n = 0 THEN 0 ELSE 1 + IntBitLength(n \div 2)

RECURSIVE BigTrim(_)
BigTrim(b) ==
    IF b = <<>> THEN <<>>
    ELSE IF b[Len(b)] = 0 THEN BigTrim(SubSeq(b, 1, Len(b) - 1)) ELSE b

BigFromInt(n) == BigTrim(<< n % LimbBase, (n \div LimbBase) % LimbBase, n \div (LimbBase * LimbBase) >>)

RECURSIVE BigToInt(_)
BigToInt(b) == IF b = <<>> THEN 0 ELSE b[1] + LimbBase * BigToInt(Tail(b))

BigBitLength(b) ==
    LET t == BigTrim(b)
    IN  IF t = <<>> THEN 0 ELSE (Len(t) - 1) * LimbBits + IntBitLength(t[Len(t)])

BigIsOdd(b) == b # <<>> /\ b[1] % 2 = 1

\* b * k + carry, for 0 <= k, carry <= LimbBase.
RECURSIVE BigMulSmall(_, _, _)
BigMulSmall(b, k, carry) ==
    IF b = <<>>
    THEN BigFromInt(carry)
    ELSE LET t == b[1] * k + carry
         IN  << t % LimbBase >> \o BigMulSmall(Tail(b), k, t \div LimbBase)

\* Quotient and remainder of b by k, for 1 <= k <= LimbBase.
RECURSIVE BigDivRem(_, _, _, _, _)
BigDivRem(b, k, n, rem, acc) ==
    IF n = 0
    THEN [q |-> BigTrim(acc), r |-> rem]
    ELSE LET cur == rem * LimbBase + b[n]
         IN  BigDivRem(b, k, n - 1, cur % k, << cur \div k >> \o acc)

BigDivSmall(b, k) == BigDivRem(b, k, Len(b), 0, <<>>)

\* b * 2^n.
BigShiftLeft(b, n) ==
    [j \in 1..(n \div LimbBits) |-> 0] \o BigMulSmall(b, 2^(n % LimbBits), 0)

\* floor(b / 2^n), and whether a bit was dropped.
BigShiftRight(b, n) ==
    LET a    == n \div LimbBits
        low  == SubSeq(b, 1, IF a < Len(b) THEN a ELSE Len(b))
        high == SubSeq(b, a + 1, Len(b))
        d    == BigDivSmall(high, 2^(n % LimbBits))
    IN  [q |-> d.q, inexact |-> (d.r # 0 \/ BigTrim(low) # <<>>)]

\* m * 2^e, with m / 2^d rounded to the nearest natural, ties to even; sticky
\* says that m itself stands for a value slightly above m.
RoundShift(m, d, sticky) ==
    LET above == BigShiftRight(m, d - 1)
        half  == BigIsOdd(above.q)
        q     == BigShiftRight(above.q, 1).q
        rest  == above.inexact \/ sticky
    IN  IF half /\ (rest \/ BigIsOdd(q)) THEN BigMulSmall(q, 1, 1) ELSE q

\* The double nearest to m * 2^e (exactly m * 2^e, or slightly above with sticky).
FRound(m, e, sticky) ==
    LET n == BigBitLength(m)
    IN  IF n <= DoubleBits
        THEN [m |-> BigTrim(m), e |-> e]
        ELSE [m |-> RoundShift(m, n - DoubleBits, sticky), e |-> e + (n - DoubleBits)]

FOne == [m |-> <<1>>, e |-> 0]

\* a / b of two ints (Python's true division), 0 <= a, 1 <= b <= LimbBase.
FDiv(a, b) ==
    LET s == DoubleBits + 2 + IntBitLength(b)
        d == BigDivSmall(BigShiftLeft(BigFromInt(a), s), b)
    IN  FRound(d.q, 0 - s, d.r # 0)

\* x * f for an int 0 <= x <= LimbBase and a double f.
FMulInt(x, f) == FRound(BigMulSmall(f.m, x, 0), f.e, FALSE)

\* int(f): truncation.
FTrunc(f) ==
    IF f.e >= 0
    THEN BigToInt(BigShiftLeft(f.m, f.e))
    ELSE BigToInt(BigShiftRight(f.m, 0 - f.e).q)

\* ------------------------------------------------------------------- state
VARIABLES
    locator,           \* a find_word_in_image call: its inputs and loop state
    compositor,        \* a create_aligned_image call: its inputs and outcome
    namer,             \* the naming and write of one matched image
    service,           \* a BackendService: status, aligners, threads, handler
    background,        \* self.background
    progress_callback, \* self.progress_callback: "none" or "sink"
    cancelled,         \* self._cancelled (threading.Event)
    processing_lock,   \* self._processing_lock: its holder, or "free"
    pc,                \* where each caller is
    batch,             \* the list of images the application works on
    image_paths,       \* the argument of each call
    i,                 \* enumerate index of the loop, 0-based
    results,           \* the local list of each call
    result,            \* what process_single_image hands back, before the append
    written,           \* the writes each call made to the output directory
    progress,          \* the events each call delivered to the sink
    ret,               \* what the caller of process_images got
    ncancels,          \* history: cancel() calls so far
    cancelSnap,        \* history: the call's state at the first cancel() during it
    mark,              \* history: len(results) at the last cancel() made at a boundary
    sinkRaised         \* history: the sink raised during the call

vars == << service, locator, compositor, namer, background, progress_callback, cancelled, processing_lock, pc, batch, image_paths,
           i, results, result, written, progress, ret, ncancels, cancelSnap, mark,
           sinkRaised >>

LoopPCs == {"check", "psi_check1", "report", "ocr", "psi_check2", "compose", "write", "append"}

ActivePCs == LoopPCs \cup {"acquire"}

NoSnap == [at |-> "none", nres |-> 0, nwr |-> 0, started |-> 0]

NoRet == [kind |-> "none", value |-> <<>>]

\* No find_word_in_image, create_aligned_image or naming under study.
LocatorIdle == [pc |-> "idle"]

CompositorIdle == [pc |-> "idle"]

NamerIdle == [pc |-> "idle"]

\* No BackendService under study.
ServiceIdle == [pc |-> "none"]

\* The call has handed its list back.
Returned(t) == pc[t] \in {"completed", "cancelled"}

\* Items that have passed the boundary check of the loop.
Started(t) == IF pc[t] \in LoopPCs \ {"check"} THEN i[t] + 1 ELSE i[t]

Current(t) == image_paths[t][i[t] + 1]

Init ==
    /\ \E c \in Configs : /\ background = c.background
                          /\ progress_callback = c.progress_callback
    /\ batch \in BatchInputs
    /\ locator = LocatorIdle
    /\ compositor = CompositorIdle
    /\ namer = NamerIdle
    /\ service = ServiceIdle
    /\ cancelled = FALSE
    /\ processing_lock = "free"
    /\ pc = [t \in Callers |-> "idle"]
    /\ image_paths = [t \in Callers |-> <<>>]
    /\ i = [t \in Callers |-> 0]
    /\ results = [t \in Callers |-> <<>>]
    /\ result = [t \in Callers |-> NoEntry]
    /\ written = [t \in Callers |-> <<>>]
    /\ progress = [t \in Callers |-> <<>>]
    /\ ret = [t \in Callers |-> NoRet]
    /\ ncancels = 0
    /\ cancelSnap = [t \in Callers |-> NoSnap]
    /\ mark = [t \in Callers |-> -1]
    /\ sinkRaised = [t \in Callers |-> FALSE]

\* ------------------------------------------------------------- process_images
\* Lines 258-259: results = [] and self._cancelled.clear(), before the lock is taken.
Start(t) ==
    /\ pc[t] = "idle"
    /\ image_paths' = [image_paths EXCEPT ![t] = batch]
    /\ results' = [results EXCEPT ![t] = <<>>]
    /\ cancelled' = FALSE
    /\ pc' = [pc EXCEPT ![t] = "acquire"]
    /\ UNCHANGED << service, locator, compositor, namer, batch, background, progress_callback, processing_lock, i, result, written,
                    progress, ret, ncancels, cancelSnap, mark, sinkRaised >>

\* A faulty variant of Acquire: the lock is taken whether it is free or not.
AcquireNoGuard(t) ==
    /\ pc[t] = "acquire"
    /\ processing_lock' = t
    /\ i' = [i EXCEPT ![t] = 0]
    /\ pc' = [pc EXCEPT ![t] = "check"]
    /\ UNCHANGED << service, locator, compositor, namer, batch, background, progress_callback, cancelled, image_paths, results, result,
                    written, progress, ret, ncancels, cancelSnap, mark, sinkRaised >>

\* Line 262: with self._processing_lock (a blocking acquire), then the loop starts.
Acquire(t) ==
    /\ pc[t] = "acquire"
    /\ processing_lock = "free"
    /\ processing_lock' = t
    /\ i' = [i EXCEPT ![t] = 0]
    /\ pc' = [pc EXCEPT ![t] = "check"]
    /\ UNCHANGED << service, locator, compositor, namer, batch, background, progress_callback, cancelled, image_paths, results, result,
                    written, progress, ret, ncancels, cancelSnap, mark, sinkRaised >>

\* A faulty variant of ReturnResults: the lock is not released on return.
ReturnResultsKeepsLock(t) ==
    /\ UNCHANGED processing_lock
    /\ ret' = [ret EXCEPT ![t] = [kind |-> "list", value |-> results[t]]]
    /\ pc' = [pc EXCEPT ![t] = IF i[t] >= Len(image_paths[t])
                                THEN "completed" ELSE "cancelled"]

\* Leaving the with block normally: the lock is released, lines 277-282 count
\* and return results.  The call ends "completed" at the end of the list and
\* "cancelled" by the break of line 266.
ReturnResults(t) ==
    /\ processing_lock' = "free"
    /\ ret' = [ret EXCEPT ![t] = [kind |-> "list", value |-> results[t]]]
    /\ pc' = [pc EXCEPT ![t] = IF i[t] >= Len(image_paths[t])
                                THEN "completed" ELSE "cancelled"]

\* A faulty variant of RaiseProcessingError: the handler logs the exception and falls
\* through to the return of results.
RaiseSwallowed(t) ==
    /\ processing_lock' = "free"
    /\ ret' = [ret EXCEPT ![t] = [kind |-> "list", value |-> results[t]]]
    /\ pc' = [pc EXCEPT ![t] = "failed"]

\* An exception leaving the loop: the with block releases the lock, lines 272-275
\* log and raise ProcessingError; the caller gets no list.
RaiseProcessingError(t) ==
    /\ processing_lock' = "free"
    /\ ret' = [ret EXCEPT ![t] = [kind |-> "ProcessingError", value |-> <<>>]]
    /\ pc' = [pc EXCEPT ![t] = "failed"]

\* The entries a loop that recorded the items it skips would add.
RestCancelled(t) ==
    [j \in 1..(Len(image_paths[t]) - i[t]) |->
        [success |-> FALSE,
         filename |-> IF image_paths[t][i[t] + j].isPath
                      THEN PathName(image_paths[t][i[t] + j]) ELSE <<>>,
         detail |-> "Processing cancelled"]]

\* A faulty variant of BoundaryCheck: on a set flag the items left are recorded as
\* cancelled before the loop is left.
BoundaryCheckRecordsRest(t) ==
    /\ pc[t] = "check"
    /\ IF i[t] >= Len(image_paths[t]) \/ cancelled
       THEN /\ processing_lock' = "free"
            /\ results' = [results EXCEPT ![t] = @ \o RestCancelled(t)]
            /\ ret' = [ret EXCEPT ![t] = [kind |-> "list", value |-> results'[t]]]
            /\ pc' = [pc EXCEPT ![t] = IF i[t] >= Len(image_paths[t])
                                        THEN "completed" ELSE "cancelled"]
       ELSE /\ pc' = [pc EXCEPT ![t] = "psi_check1"]
            /\ UNCHANGED << processing_lock, ret, results >>
    /\ UNCHANGED << service, locator, compositor, namer, batch, background, progress_callback, cancelled, image_paths, i,
                    result, written, progress, ncancels, cancelSnap, mark, sinkRaised >>

\* A faulty variant of BoundaryCheck: the loop does not poll the flag.
BoundaryCheckNoPoll(t) ==
    /\ pc[t] = "check"
    /\ IF i[t] >= Len(image_paths[t])
       THEN ReturnResults(t)
       ELSE /\ pc' = [pc EXCEPT ![t] = "psi_check1"]
            /\ UNCHANGED << processing_lock, ret >>
    /\ UNCHANGED << service, locator, compositor, namer, batch, background, progress_callback, cancelled, image_paths, i, results,
                    result, written, progress, ncancels, cancelSnap, mark, sinkRaised >>

\* Lines 263-266: the next item of enumerate(image_paths), or the end of the
\* loop; the flag is polled first and a set flag breaks out of the loop.
BoundaryCheck(t) ==
    /\ pc[t] = "check"
    /\ IF i[t] >= Len(image_paths[t]) \/ cancelled
       THEN ReturnResults(t)
       ELSE /\ pc' = [pc EXCEPT ![t] = "psi_check1"]
            /\ UNCHANGED << processing_lock, ret >>
    /\ UNCHANGED << service, locator, compositor, namer, batch, background, progress_callback, cancelled, image_paths, i, results,
                    result, written, progress, ncancels, cancelSnap, mark, sinkRaised >>

\* ------------------------------------------------------- process_single_image
\* process_single_image returns `entry`: the caller's append is the next step.
Hand(t, entry) ==
    /\ result' = [result EXCEPT ![t] = entry]
    /\ pc' = [pc EXCEPT ![t] = "append"]

\* Lines 206-210 and 245-249: the first poll of the flag and filename =
\* Path(image_path).name.  For an element that is no path Path() raises in the
\* try block and again in the except block, so the exception leaves
\* process_single_image and the loop.
PsiCheck1(t) ==
    /\ pc[t] = "psi_check1"
    /\ IF ~Current(t).isPath
       THEN /\ RaiseProcessingError(t)
            /\ UNCHANGED result
       ELSE /\ IF cancelled
               THEN Hand(t, CancelledEntry(Current(t)))
               ELSE /\ pc' = [pc EXCEPT ![t] = "report"]
                    /\ UNCHANGED result
            /\ UNCHANGED << processing_lock, ret >>
    /\ UNCHANGED << service, locator, compositor, namer, batch, background, progress_callback, cancelled, image_paths, i, results,
                    written, progress, ncancels, cancelSnap, mark, sinkRaised >>

\* The event _report_progress hands to the sink at line 211.
ProgressEvent(t) ==
    [current |-> i[t] + 1, total |-> Len(image_paths[t]),
     current_file |-> PathName(Current(t)), operation |-> "Processing"]

\* A faulty variant of ReportProgress: the sink's exception is not caught in
\* _report_progress, so process_single_image's handler makes an error entry of it.
ReportProgressUncaught(t) ==
    /\ pc[t] = "report"
    /\ IF progress_callback = "sink"
       THEN /\ progress' = [progress EXCEPT ![t] = Append(@, ProgressEvent(t))]
            /\ \E raises \in BOOLEAN :
                 /\ sinkRaised' = [sinkRaised EXCEPT ![t] = @ \/ raises]
                 /\ IF raises
                    THEN Hand(t, ErrorEntry(Current(t)))
                    ELSE /\ pc' = [pc EXCEPT ![t] = "ocr"]
                         /\ UNCHANGED result
       ELSE /\ pc' = [pc EXCEPT ![t] = "ocr"]
            /\ UNCHANGED << progress, sinkRaised, result >>
    /\ UNCHANGED << service, locator, compositor, namer, batch, background, progress_callback, cancelled, processing_lock, image_paths,
                    i, results, written, ret, ncancels, cancelSnap, mark >>

\* A faulty variant of ReportProgress: the sink is called with the 0-based index.
ReportProgressZeroBased(t) ==
    /\ pc[t] = "report"
    /\ IF progress_callback = "sink"
       THEN /\ progress' = [progress EXCEPT
                              ![t] = Append(@, [ProgressEvent(t) EXCEPT !.current = i[t]])]
            /\ \E raises \in BOOLEAN :
                 sinkRaised' = [sinkRaised EXCEPT ![t] = @ \/ raises]
       ELSE UNCHANGED << progress, sinkRaised >>
    /\ pc' = [pc EXCEPT ![t] = "ocr"]
    /\ UNCHANGED << service, locator, compositor, namer, batch, background, progress_callback, cancelled, processing_lock, image_paths,
                    i, results, result, written, ret, ncancels, cancelSnap, mark >>

\* Line 211 with lines 60-66: the sink, when there is one, is called with
\* (current_index, total_count, filename, "Processing <filename>") before the
\* image is read; whatever Exception it raises is caught and logged.
ReportProgress(t) ==
    /\ pc[t] = "report"
    /\ IF progress_callback = "sink"
       THEN /\ progress' = [progress EXCEPT ![t] = Append(@, ProgressEvent(t))]
            /\ \E raises \in BOOLEAN :
                 sinkRaised' = [sinkRaised EXCEPT ![t] = @ \/ raises]
       ELSE UNCHANGED << progress, sinkRaised >>
    /\ pc' = [pc EXCEPT ![t] = "ocr"]
    /\ UNCHANGED << service, locator, compositor, namer, batch, background, progress_callback, cancelled, processing_lock, image_paths,
                    i, results, result, written, ret, ncancels, cancelSnap, mark >>

\* find_word_in_image (lines 85-143) as process_single_image sees it: a match,
\* or None for an image without the word and, the exception being caught at
\* lines 141-143, for one that cannot be decoded.
WordFound(path) == ImageKind(path) \in {"ok", "fallback", "composefail", "encodefail"}

\* A faulty variant of FindWord: the decoding error leaves find_word_in_image
\* and reaches the handler of process_single_image.
FindWordRaises(t) ==
    /\ pc[t] = "ocr"
    /\ IF WordFound(Current(t))
       THEN /\ pc' = [pc EXCEPT ![t] = "psi_check2"]
            /\ UNCHANGED result
       ELSE IF ImageKind(Current(t)) = "undecodable"
            THEN Hand(t, ErrorEntry(Current(t)))
            ELSE Hand(t, NotFoundEntry(Current(t)))
    /\ UNCHANGED << service, locator, compositor, namer, batch, background, progress_callback, cancelled, processing_lock, image_paths,
                    i, results, written, progress, ret, ncancels, cancelSnap, mark,
                    sinkRaised >>

\* Lines 213-215 and 241-243.
FindWord(t) ==
    /\ pc[t] = "ocr"
    /\ IF WordFound(Current(t))
       THEN /\ pc' = [pc EXCEPT ![t] = "psi_check2"]
            /\ UNCHANGED result
       ELSE Hand(t, NotFoundEntry(Current(t)))
    /\ UNCHANGED << service, locator, compositor, namer, batch, background, progress_callback, cancelled, processing_lock, image_paths,
                    i, results, written, progress, ret, ncancels, cancelSnap, mark,
                    sinkRaised >>

\* A faulty variant of PsiCheck2: no poll after OCR.
PsiCheck2NoPoll(t) ==
    /\ pc[t] = "psi_check2"
    /\ pc' = [pc EXCEPT ![t] = "compose"]
    /\ UNCHANGED << service, locator, compositor, namer, batch, background, progress_callback, cancelled, processing_lock, image_paths,
                    i, results, result, written, progress, ret, ncancels, cancelSnap, mark,
                    sinkRaised >>

\* Lines 216-217: the poll after OCR, before the composition.
PsiCheck2(t) ==
    /\ pc[t] = "psi_check2"
    /\ IF cancelled
       THEN Hand(t, CancelledEntry(Current(t)))
       ELSE /\ pc' = [pc EXCEPT ![t] = "compose"]
            /\ UNCHANGED result
    /\ UNCHANGED << service, locator, compositor, namer, batch, background, progress_callback, cancelled, processing_lock, image_paths,
                    i, results, written, progress, ret, ncancels, cancelSnap, mark,
                    sinkRaised >>

\* A faulty variant of Compose: the write follows a failed composition as well.
ComposeIgnoresFailure(t) ==
    /\ pc[t] = "compose"
    /\ pc' = [pc EXCEPT ![t] = "write"]
    /\ UNCHANGED << service, locator, compositor, namer, batch, background, progress_callback, cancelled, processing_lock, image_paths,
                    i, results, result, written, progress, ret, ncancels, cancelSnap, mark,
                    sinkRaised >>

\* A faulty variant of Compose: the ProcessingError of create_aligned_image is not
\* caught at the image boundary and leaves the loop.
ComposeAborts(t) ==
    /\ pc[t] = "compose"
    /\ IF ImageKind(Current(t)) = "composefail"
       THEN /\ RaiseProcessingError(t)
            /\ UNCHANGED result
       ELSE /\ pc' = [pc EXCEPT ![t] = "write"]
            /\ UNCHANGED << result, processing_lock, ret >>
    /\ UNCHANGED << service, locator, compositor, namer, batch, background, progress_callback, cancelled, image_paths, i, results,
                    written, progress, ncancels, cancelSnap, mark, sinkRaised >>

\* Line 219 with lines 200-202 and 245-249: create_aligned_image returns the
\* canvas or raises ProcessingError, which the handler of process_single_image
\* turns into an error entry.
Compose(t) ==
    /\ pc[t] = "compose"
    /\ IF ImageKind(Current(t)) = "composefail"
       THEN Hand(t, ErrorEntry(Current(t)))
       ELSE /\ pc' = [pc EXCEPT ![t] = "write"]
            /\ UNCHANGED result
    /\ UNCHANGED << service, locator, compositor, namer, batch, background, progress_callback, cancelled, processing_lock, image_paths,
                    i, results, written, progress, ret, ncancels, cancelSnap, mark,
                    sinkRaised >>

\* Lines 221-240: the output name, cv2.imwrite, on its failure cv2.imencode and
\* tofile; when both fail ProcessingError("Failed to encode image") becomes an
\* error entry and nothing is written.
Write(t) ==
    /\ pc[t] = "write"
    /\ IF ImageKind(Current(t)) = "encodefail"
       THEN /\ Hand(t, ErrorEntry(Current(t)))
            /\ UNCHANGED written
       ELSE /\ written' = [written EXCEPT
                             ![t] = Append(@, [item |-> i[t] + 1,
                                               name |-> OutputFilename(PathName(Current(t)),
                                                                       background)])]
            /\ Hand(t, SuccessEntry(Current(t)))
    /\ UNCHANGED << service, locator, compositor, namer, batch, background, progress_callback, cancelled, processing_lock, image_paths,
                    i, results, progress, ret, ncancels, cancelSnap, mark, sinkRaised >>

\* A faulty variant of AppendResult: the new entry is put in front of the list.
AppendResultInFront(t) ==
    /\ pc[t] = "append"
    /\ results' = [results EXCEPT ![t] = <<result[t]>> \o @]
    /\ i' = [i EXCEPT ![t] = @ + 1]
    /\ pc' = [pc EXCEPT ![t] = "check"]
    /\ UNCHANGED << service, locator, compositor, namer, batch, background, progress_callback, cancelled, processing_lock, image_paths,
                    result, written, progress, ret, ncancels, cancelSnap, mark, sinkRaised >>

\* Lines 268-270: results.append(result), the 10 ms sleep, the next iteration.
AppendResult(t) ==
    /\ pc[t] = "append"
    /\ results' = [results EXCEPT ![t] = Append(@, result[t])]
    /\ i' = [i EXCEPT ![t] = @ + 1]
    /\ pc' = [pc EXCEPT ![t] = "check"]
    /\ UNCHANGED << service, locator, compositor, namer, batch, background, progress_callback, cancelled, processing_lock, image_paths,
                    result, written, progress, ret, ncancels, cancelSnap, mark, sinkRaised >>

\* -------------------------------------------------------------------- cancel
\* Lines 51-54: self._cancelled.set(), from any thread at any time.  The history
\* variables record where each running call was.
Cancel ==
    /\ ncancels < MaxCancels
    /\ cancelled' = TRUE
    /\ ncancels' = ncancels + 1
    /\ cancelSnap' = [t \in Callers |->
                        IF pc[t] \in ActivePCs /\ cancelSnap[t] = NoSnap
                        THEN [at |-> pc[t], nres |-> Len(results[t]),
                              nwr |-> Len(written[t]), started |-> Started(t)]
                        ELSE cancelSnap[t]]
    /\ mark' = [t \in Callers |->
                  IF pc[t] = "check" THEN Len(results[t]) ELSE mark[t]]
    /\ UNCHANGED << service, locator, compositor, namer, batch, background, progress_callback, processing_lock, pc, image_paths, i,
                    results, result, written, progress, ret, sinkRaised >>

Next ==
    \/ \E t \in Callers : Start(t)
    \/ \E t \in Callers : Acquire(t)
    \/ \E t \in Callers : BoundaryCheck(t)
    \/ \E t \in Callers : PsiCheck1(t)
    \/ \E t \in Callers : ReportProgress(t)
    \/ \E t \in Callers : FindWord(t)
    \/ \E t \in Callers : PsiCheck2(t)
    \/ \E t \in Callers : Compose(t)
    \/ \E t \in Callers : Write(t)
    \/ \E t \in Callers : AppendResult(t)
    \/ Cancel

Spec == Init /\ [][Next]_vars

\* ------------------------------------------------------------------ claims
\* The entry process_single_image makes of an image nobody cancels.
ExpectedEntry(path) ==
    CASE ImageKind(path) \in {"ok", "fallback"} -> SuccessEntry(path)
      [] ImageKind(path) \in {"notfound", "undecodable"} -> NotFoundEntry(path)
      [] OTHER -> ErrorEntry(path)

\* The entries of a list that record a cancellation.
CancelledAt(list) == { j \in 1..Len(list) : list[j].detail = "Processing cancelled" }

\* No process_images call but t's has been made on the instance.
OnlyCall(t) == \A u \in Callers \ {t} : pc[u] = "idle"

\* C1: when cancel() is called after item k's entry was appended and before the
\* boundary check of item k+1 (k < n), and no other process_images call is made
\* on the instance, the call returns exactly k entries, those of the first k
\* inputs in order, and nothing for items k+1..n.
C1_CancelAtBoundary ==
    \A t \in Callers :
        (Returned(t) /\ OnlyCall(t) /\ mark[t] >= 0 /\ mark[t] < Len(image_paths[t]))
        => /\ ret[t].kind = "list"
           /\ Len(ret[t].value) = mark[t]
           /\ \A j \in 1..mark[t] :
                /\ ret[t].value[j].filename = PathName(image_paths[t][j])
                /\ ret[t].value[j] \in { ExpectedEntry(image_paths[t][j]),
                                         CancelledEntry(image_paths[t][j]) }
                /\ ncancels = 1 => ret[t].value[j] = ExpectedEntry(image_paths[t][j])

C1_Witness ==
    \E t \in Callers :
        /\ pc[t] = "cancelled" /\ OnlyCall(t)
        /\ mark[t] >= 1 /\ mark[t] < Len(image_paths[t])
        /\ Len(ret[t].value) = mark[t]

\* C2 as stated: cancellation never produces a result entry; no entry with
\* success = false is recorded for an item that cancellation kept from being
\* processed.
C2_NoCancelledEntry ==
    \A t \in Callers : CancelledAt(results[t]) = {}

\* C2 amended: a flag found set by the boundary check produces no entry (the
\* list returned holds the i items handled before it and nothing for the rest);
\* a flag found set inside process_single_image is recorded for that one item as
\* (False, filename, "Processing cancelled"), at most once per cancel() call.
C2_CancelledEntryOnlyInFlight ==
    \A t \in Callers :
        /\ Cardinality(CancelledAt(results[t])) <= ncancels
        /\ pc[t] = "cancelled" =>
              /\ i[t] < Len(image_paths[t])
              /\ ret[t].value = results[t]
              /\ Len(ret[t].value) = i[t]
        /\ \A j \in CancelledAt(results[t]) :
                results[t][j] = CancelledEntry(image_paths[t][j])

C2_Witness ==
    \E t \in Callers :
        /\ pc[t] = "cancelled"
        /\ Len(ret[t].value) >= 1
        /\ Len(ret[t].value) < Len(image_paths[t])
        /\ CancelledAt(ret[t].value) = { Len(ret[t].value) }

\* C3: at most one process_images call of the instance is inside the per-item
\* loop; a second call is not rejected: it waits at the lock with nothing handed
\* back, can go on exactly when the lock is free, and the lock is held exactly
\* by the call that is in the loop.
C3_OneBatchInLoop ==
    /\ Cardinality({ t \in Callers : pc[t] \in LoopPCs }) <= 1
    /\ \A t \in Callers :
          /\ pc[t] \in LoopPCs <=> processing_lock = t
          /\ pc[t] = "acquire" =>
                /\ ret[t] = NoRet
                /\ (ENABLED Acquire(t)) <=> (processing_lock = "free")

C3_Witness ==
    \E t, u \in Callers :
        /\ t # u
        /\ pc[t] \in LoopPCs /\ Len(results[t]) >= 1
        /\ pc[u] = "acquire"

\* The list is the image, in order, of a prefix of the inputs.
PrefixImage(list, paths) ==
    /\ Len(list) <= Len(paths)
    /\ \A j \in 1..Len(list) : list[j].filename = PathName(paths[j])

\* C4: in every state of a batch the result list is an order-preserving prefix
\* image of the input list (no longer than it, entry j carrying the file name of
\* image_paths[j]), and every step leaves the list as it is or appends one entry
\* to it: no entry is changed or removed.
C4_AppendOnlyPrefix ==
    [][\A t \in Callers :
          /\ PrefixImage(results[t], image_paths[t])
          /\ PrefixImage(results'[t], image_paths'[t])
          /\ \/ results'[t] = results[t]
             \/ /\ Len(results'[t]) = Len(results[t]) + 1
                /\ SubSeq(results'[t], 1, Len(results[t])) = results[t]]_vars

C4_Witness ==
    \E t \in Callers :
        /\ pc[t] \in LoopPCs
        /\ Len(results[t]) >= 2
        /\ PathName(image_paths[t][1]) # PathName(image_paths[t][2])

\* C5: a per-image failure (undecodable image, word not found, composition or
\* encode error) never aborts the batch.  It is recorded as one entry with
\* success = false and the loop goes on, so a batch of n items during which
\* cancel() is never called returns exactly n entries; the loop is only ever
\* left by an exception at an element that is no path.
C5_FailureDoesNotAbort ==
    \A t \in Callers :
        /\ pc[t] = "failed" => ~Current(t).isPath
        /\ (Returned(t) /\ cancelSnap[t] = NoSnap) =>
              /\ pc[t] = "completed"
              /\ Len(ret[t].value) = Len(image_paths[t])
              /\ \A j \in 1..Len(image_paths[t]) :
                    /\ ret[t].value[j] = ExpectedEntry(image_paths[t][j])
                    /\ ImageKind(image_paths[t][j]) \notin {"ok", "fallback"}
                          => ~ret[t].value[j].success

C5_Witness ==
    \E t \in Callers :
        /\ pc[t] = "completed" /\ cancelSnap[t] = NoSnap
        /\ Len(ret[t].value) = Len(image_paths[t])
        /\ Len(ret[t].value) >= 2
        /\ ~ret[t].value[1].success
        /\ ret[t].value[1].detail = "Error processing"

\* C6 as stated: process_images hands back the result list on every exit path,
\* a fatal fault of the outer loop included, with the entries accumulated so far.
C6_ListOnEveryExit ==
    \A t \in Callers :
        pc[t] \in {"completed", "cancelled", "failed"}
        => (ret[t].kind = "list" /\ ret[t].value = results[t])

\* C6 amended: process_images hands back the ordered result list on natural
\* completion and on cancellation; on a fault of the outer loop it raises
\* ProcessingError instead and the entries accumulated before the fault are not
\* handed to the caller.
C6_ListUnlessFatal ==
    \A t \in Callers :
        /\ Returned(t) => (ret[t].kind = "list" /\ ret[t].value = results[t])
        /\ pc[t] = "failed" => (ret[t].kind = "ProcessingError" /\ ret[t].value = <<>>)
        /\ pc[t] \notin {"completed", "cancelled", "failed"} => ret[t] = NoRet

C6_Witness ==
    \E t \in Callers :
        /\ pc[t] = "failed"
        /\ Len(results[t]) >= 1
        /\ ret[t].kind = "ProcessingError"

\* C7: once cancel() is called while a batch is in its loop, the batch observes
\* it within one item: after the call at most one further entry is appended, at
\* most one further output file is written and no later item is started.
C7_ObservedWithinOneItem ==
    \A t \in Callers :
        cancelSnap[t].at \in LoopPCs
        => /\ Len(results[t]) <= cancelSnap[t].nres + 1
           /\ Len(written[t]) <= cancelSnap[t].nwr + 1
           /\ Started(t) <= cancelSnap[t].started

\* The writes made for item j of the call.
WritesOf(t, j) == { k \in 1..Len(written[t]) : written[t][k].item = j }

\* C8: the flag is polled after OCR, before the composition: when that poll of
\* a matched image finds it set, process_single_image hands back the cancelled
\* entry and writes no file for the image; a composition or write in flight is
\* not interrupted, whatever the flag, and ends in the file or in an error entry.
C8_PollAfterOcr ==
    [][\A t \in Callers :
          /\ (pc[t] = "psi_check2" /\ pc'[t] # pc[t])
                => IF cancelled
                   THEN /\ pc'[t] = "append"
                        /\ result'[t] = CancelledEntry(Current(t))
                        /\ written'[t] = written[t]
                        /\ WritesOf(t, i[t] + 1) = {}
                   ELSE pc'[t] = "compose"
          /\ (pc[t] = "compose" /\ pc'[t] # pc[t])
                => \/ pc'[t] = "write"
                   \/ pc'[t] = "append" /\ result'[t] = ErrorEntry(Current(t))
          /\ (pc[t] = "write" /\ pc'[t] # pc[t])
                => /\ pc'[t] = "append"
                   /\ \/ /\ result'[t] = SuccessEntry(Current(t))
                         /\ Len(written'[t]) = Len(written[t]) + 1
                      \/ /\ result'[t] = ErrorEntry(Current(t))
                         /\ written'[t] = written[t]
          /\ \A j \in CancelledAt(results'[t]) : WritesOf(t, j)' = {}]_vars

C8_Witness ==
    \E t \in Callers :
        /\ cancelSnap[t].at = "psi_check2"
        /\ Len(results[t]) = cancelSnap[t].started
        /\ Len(results[t]) \in CancelledAt(results[t])
        /\ WritesOf(t, Len(results[t])) = {}

\* The sink has been called for item j of the call.
Reported(t, j) == \E m \in 1..Len(progress[t]) : progress[t][m].current = j

\* C9 as stated: the sink is invoked after the item has been processed: the
\* progress event of item j follows the determination of item j's outcome, and
\* every item that gets a result entry gets its event.
C9_EventAfterOutcome ==
    progress_callback = "sink" =>
        \A t \in Callers :
            /\ Len(progress[t]) <= Len(results[t]) + (IF pc[t] = "append" THEN 1 ELSE 0)
            /\ \A j \in 1..Len(results[t]) : Reported(t, j)

\* C9 amended: the sink is invoked before the item is processed, with (1-based
\* index, number of inputs, file name, "Processing <file name>"): the event of
\* item j precedes the determination of item j's outcome, for every item that
\* passes the first poll of process_single_image; an item that poll records as
\* cancelled gets an entry and no event.
C9_EventBeforeOutcome ==
    \A t \in Callers :
        /\ progress_callback = "none" => progress[t] = <<>>
        /\ \A m \in 1..Len(progress[t]) :
              /\ progress[t][m].current \in 1..Started(t)
              /\ progress[t][m].total = Len(image_paths[t])
              /\ progress[t][m].current_file
                    = PathName(image_paths[t][progress[t][m].current])
              /\ progress[t][m].operation = "Processing"
              /\ \A k \in 1..(m - 1) : progress[t][k].current < progress[t][m].current
        /\ progress_callback = "sink" =>
              /\ pc[t] \in {"ocr", "psi_check2", "compose", "write"} =>
                    /\ Reported(t, i[t] + 1)
                    /\ Len(results[t]) = i[t]
              /\ \A j \in 1..Len(results[t]) :
                    results[t][j].detail # "Processing cancelled" => Reported(t, j)

C9_Witness ==
    \E t \in Callers :
        /\ progress_callback = "sink"
        /\ pc[t] = "ocr"
        /\ i[t] >= 1
        /\ Len(progress[t]) = Len(results[t]) + 1
        /\ progress[t][Len(progress[t])].current = i[t] + 1

\* The writes a list of entries stands for: one per success entry, in order.
SuccessItems(list) == { j \in 1..Len(list) : list[j].success }

\* C10: an exception raised by the sink never aborts or alters the batch: with
\* the sink raising on any of its invocations or on none, every entry is the one
\* the image calls for (or the cancelled one), the files written are those of
\* the success entries and the loop is left by an exception only at an element
\* that is no path.
C10_SinkExceptionHarmless ==
    \A t \in Callers :
        /\ \A j \in 1..Len(results[t]) :
              results[t][j] \in { ExpectedEntry(image_paths[t][j]),
                                  CancelledEntry(image_paths[t][j]) }
        /\ { written[t][k].item : k \in 1..Len(written[t]) }
              = SuccessItems(IF pc[t] = "append" /\ result[t].success
                             THEN Append(results[t], result[t]) ELSE results[t])
        /\ \A k \in 1..Len(written[t]) :
              written[t][k].name
                 = OutputFilename(PathName(image_paths[t][written[t][k].item]), background)
        /\ pc[t] = "failed" => ~Current(t).isPath
        /\ pc[t] = "completed" => Len(results[t]) = Len(image_paths[t])

C10_Witness ==
    \E t \in Callers :
        /\ sinkRaised[t]
        /\ pc[t] = "completed"
        /\ Len(ret[t].value) >= 2
        /\ \A j \in 1..Len(ret[t].value) :
              ret[t].value[j] = ExpectedEntry(image_paths[t][j])
        /\ SuccessItems(ret[t].value) # {}

\* C11: a write for an item is attempted only after its composition succeeded:
\* the write step is entered from the composition step alone and never for an
\* item whose create_aligned_image raises; the step that ends such a composition
\* hands back an entry with success = false and writes nothing; and an entry
\* with success = true is only ever handed back by the write step, of an item
\* whose composition succeeded.
C11_WriteAfterComposition ==
    [][\A t \in Callers :
          /\ (pc'[t] = "write" /\ pc[t] # "write")
                => pc[t] = "compose" /\ ImageKind(Current(t)) # "composefail"
          /\ (pc[t] = "compose" /\ pc'[t] # "compose"
                /\ ImageKind(Current(t)) = "composefail")
                => /\ pc'[t] = "append"
                   /\ ~result'[t].success
                   /\ written'[t] = written[t]
          /\ (pc'[t] = "append" /\ pc[t] # "append" /\ result'[t].success)
                => /\ pc[t] = "write"
                   /\ ImageKind(Current(t)) # "composefail"
                   /\ Len(written'[t]) = Len(written[t]) + 1
                   /\ written'[t][Len(written'[t])].item = i[t] + 1
          /\ written'[t] # written[t] => pc[t] = "write"]_vars

C11_Witness ==
    \E t \in Callers :
        /\ Len(results[t]) >= 1
        /\ ImageKind(image_paths[t][1]) = "composefail"
        /\ results[t][1] = ErrorEntry(image_paths[t][1])
        /\ WritesOf(t, 1) = {}
        /\ pc[t] = "write"

\* The files of the output directory after the writes of call t: a file is its
\* name, and a second write under a name replaces the first.
FilesOf(t) == { written[t][k].name : k \in 1..Len(written[t]) }

\* C12: every matched image yields its own output file: when a batch run alone
\* into an empty output directory has returned, the directory holds as many
\* files as the list has success entries, the file of input f being named
\* "aligned_" + f (extension replaced by .png in transparent mode).
C12_OneFilePerMatchedImage ==
    \A t \in Callers :
        (OnlyCall(t) /\ Returned(t)) =>
            /\ Cardinality(FilesOf(t)) = Cardinality(SuccessItems(ret[t].value))
            /\ FilesOf(t) = { OutputFilename(PathName(image_paths[t][j]), background) :
                                 j \in SuccessItems(ret[t].value) }

\* ======================================================== find_word_in_image
\* One call of find_word_in_image on the token table of pytesseract's
\* image_to_data, by an aligner built with a target word and a match mode.
MaxTokens == 2

\* Line 118: the confidence a token has to exceed.
ConfFloor == 30

\* str.lower() on the letters the texts below are made of.
LowerChar(c) ==
    CASE c = "W" -> "w"
      [] c = "D" -> "d"
      [] OTHER   -> c

Lower(s) == [k \in 1..Len(s) |-> LowerChar(s[k])]

\* str.startswith.
StartsWith(s, prefix) == Len(prefix) <= Len(s) /\ SubSeq(s, 1, Len(prefix)) = prefix

\* The target words an aligner is built with.
TargetWords == { <<"W","a","r","p">>, <<"w","a","r","p","d","o","t">> }

\* The texts OCR reports, each with the width of its box, and the confidences.
TokenTexts ==
    { [text |-> <<"w","a","r","p">>,                             width |-> 40],
      [text |-> <<"W","a","r","p">>,                             width |-> 41],
      [text |-> <<"w","r","a","p">>,                             width |-> 40],
      [text |-> <<"W","a","r","p","D","o","t">>,                 width |-> 71],
      [text |-> <<"w","a","r","p","d","o","t","d","e","v">>,     width |-> 90] }

TokenConfs == {ConfFloor, ConfFloor + 1, 96}

\* Tesseract's rows without text carry the confidence -1.
TokenPool ==
    { [text |-> tt.text, width |-> tt.width, conf |-> c] : tt \in TokenTexts, c \in TokenConfs }
       \cup { [text |-> <<>>, width |-> 300, conf |-> -1] }

\* The table of image_to_data: row k has its own left edge, so that a box tells
\* which row it was taken from.
TokenLeft(k) == 100 * k

TokenTop == 7

TokenHeight == 21

RECURSIVE SeqsUpTo(_, _)
SeqsUpTo(S, n) ==
    IF n = 0 THEN { <<>> }
    ELSE LET shorter == SeqsUpTo(S, n - 1)
         IN  shorter \cup { Append(q, x) : q \in { r \in shorter : Len(r) = n - 1 }, x \in S }

TokenTables == SeqsUpTo(TokenPool, MaxTokens)

\* best_match = None.
NoMatch == [found |-> FALSE]

\* Lines 116-117 and 125-127: is_match.
IsMatch(word_lower, target_word, exact_match) ==
    IF exact_match THEN word_lower = target_word ELSE StartsWith(word_lower, target_word)

\* A faulty variant of Takes: a token at the floor is taken.
TakesAtFloor(conf, highest_conf) == conf > highest_conf /\ conf >= ConfFloor

\* A faulty variant of Takes: a later token of equal confidence replaces the match.
TakesLatest(conf, highest_conf) == conf >= highest_conf /\ conf > ConfFloor

\* Line 118: if conf > highest_conf and conf > 30.
Takes(conf, highest_conf) == conf > highest_conf /\ conf > ConfFloor

\* Lines 124-126: the width of the match; in prefix mode a longer token's width
\* is cut down by the float len(target_word) / len(word_lower).
MatchWidth(w, word_lower, target_word, exact_match) ==
    IF ~exact_match /\ word_lower # target_word
    THEN FTrunc(FMulInt(w, FDiv(Len(target_word), Len(word_lower))))
    ELSE w

\* Lines 119-137: the dictionary built from row k.
MatchOf(tok, k, target_word, exact_match) ==
    LET x == TokenLeft(k)
        y == TokenTop
        w == MatchWidth(tok.width, Lower(tok.text), target_word, exact_match)
        h == TokenHeight
    IN  [found |-> TRUE, x |-> x, y |-> y, width |-> w, height |-> h,
         center_x |-> x + w \div 2, center_y |-> y + h \div 2,
         confidence |-> tok.conf, detected_word |-> tok.text]

batchVars ==
    << background, progress_callback, cancelled, processing_lock, pc, batch,
       image_paths, i, results, result, written, progress, ret, ncancels,
       cancelSnap, mark, sinkRaised >>

\* No batch is run: the aligner as its constructor leaves it.
BatchIdle ==
    /\ progress_callback = "none"
    /\ batch = <<>>
    /\ cancelled = FALSE
    /\ processing_lock = "free"
    /\ pc = [t \in Callers |-> "idle"]
    /\ image_paths = [t \in Callers |-> <<>>]
    /\ i = [t \in Callers |-> 0]
    /\ results = [t \in Callers |-> <<>>]
    /\ result = [t \in Callers |-> NoEntry]
    /\ written = [t \in Callers |-> <<>>]
    /\ progress = [t \in Callers |-> <<>>]
    /\ ret = [t \in Callers |-> NoRet]
    /\ ncancels = 0
    /\ cancelSnap = [t \in Callers |-> NoSnap]
    /\ mark = [t \in Callers |-> -1]
    /\ sinkRaised = [t \in Callers |-> FALSE]

InitLocator ==
    /\ BatchIdle
    /\ background = "white"
    /\ compositor = CompositorIdle
    /\ namer = NamerIdle
    /\ service = ServiceIdle
    /\ \E tw \in TargetWords, em \in BOOLEAN, tt \in TokenTables :
          locator = [pc |-> "new", given |-> tw, target_word |-> <<>>, exact_match |-> em,
                     tokens |-> tt, n |-> 0, highest_conf |-> 0, best_match |-> NoMatch]

\* Lines 40 and 43, then lines 105-106: the constructor lower-cases the target
\* word; the call starts with best_match = None and highest_conf = 0.
LocatorBegin ==
    /\ locator.pc = "new"
    /\ locator' = [locator EXCEPT !.pc = "scan", !.target_word = Lower(locator.given)]
    /\ UNCHANGED << compositor, namer, service, batchVars >>

\* Lines 108-137: one iteration of the loop over data['text'].
ScanToken ==
    /\ locator.pc = "scan"
    /\ locator.n < Len(locator.tokens)
    /\ LET k   == locator.n + 1
           tok == locator.tokens[k]
       IN  IF /\ IsMatch(Lower(tok.text), locator.target_word, locator.exact_match)
              /\ Takes(tok.conf, locator.highest_conf)
           THEN locator' = [locator EXCEPT
                              !.n = k,
                              !.best_match = MatchOf(tok, k, locator.target_word,
                                                     locator.exact_match),
                              !.highest_conf = tok.conf]
           ELSE locator' = [locator EXCEPT !.n = k]
    /\ UNCHANGED << compositor, namer, service, batchVars >>

\* Line 139: return best_match.
ScanReturn ==
    /\ locator.pc = "scan"
    /\ locator.n = Len(locator.tokens)
    /\ locator' = [locator EXCEPT !.pc = "done"]
    /\ UNCHANGED << compositor, namer, service, batchVars >>

NextLocator == LocatorBegin \/ ScanToken \/ ScanReturn

SpecLocator == InitLocator /\ [][NextLocator]_vars

\* The rows of the table that match the target word as given to the
\* constructor, under the mode of the call, with a confidence above the floor.
Candidates ==
    { k \in 1..Len(locator.tokens) :
         /\ IF locator.exact_match
            THEN Lower(locator.tokens[k].text) = Lower(locator.given)
            ELSE StartsWith(Lower(locator.tokens[k].text), Lower(locator.given))
         /\ locator.tokens[k].conf > 30 }

\* The row the returned box was taken from.
SelectedRow == locator.best_match.x \div 100

\* C13: in exact mode find_word_in_image returns a match if and only if some
\* token's lower-cased text equals the lower-cased target word and that token's
\* confidence is greater than 30; otherwise it returns None.
C13_ExactMatchIff ==
    (locator.pc = "done" /\ locator.exact_match) =>
        (locator.best_match.found <=>
            \E k \in 1..Len(locator.tokens) :
                /\ Lower(locator.tokens[k].text) = Lower(locator.given)
                /\ locator.tokens[k].conf > 30)

C13_Witness ==
    /\ locator.pc = "done"
    /\ locator.exact_match
    /\ Len(locator.tokens) = 2
    /\ locator.tokens[1].conf = 30
    /\ Lower(locator.tokens[1].text) = Lower(locator.given)
    /\ locator.best_match.found
    /\ locator.best_match.x = TokenLeft(2)
    /\ locator.best_match.detected_word # locator.given
    /\ locator.best_match.detected_word # Lower(locator.given)

\* C14: among the tokens that match under the active mode with a confidence
\* above 30, find_word_in_image returns the box of the one with the highest
\* confidence, and of the first of them in OCR order when several share it;
\* with no such token it returns None.
C14_HighestConfidenceFirst ==
    locator.pc = "done" =>
        IF Candidates = {}
        THEN ~locator.best_match.found
        ELSE /\ locator.best_match.found
             /\ SelectedRow \in Candidates
             /\ \A k \in Candidates :
                   /\ locator.tokens[k].conf <= locator.tokens[SelectedRow].conf
                   /\ locator.tokens[k].conf = locator.tokens[SelectedRow].conf
                         => SelectedRow <= k
             /\ locator.best_match.x = TokenLeft(SelectedRow)
             /\ locator.best_match.y = TokenTop
             /\ locator.best_match.height = TokenHeight
             /\ locator.best_match.center_y = TokenTop + TokenHeight \div 2
             /\ locator.best_match.confidence = locator.tokens[SelectedRow].conf
             /\ locator.best_match.detected_word = locator.tokens[SelectedRow].text

C14_Witness ==
    /\ locator.pc = "done"
    /\ ~locator.exact_match
    /\ Candidates = {1, 2}
    /\ locator.tokens[1].conf = locator.tokens[2].conf
    /\ locator.tokens[1].text # locator.tokens[2].text
    /\ locator.best_match.found
    /\ locator.best_match.x = TokenLeft(1)

\* C15: in prefix mode, when the selected token starts with the target but is
\* not equal to it, the returned width is
\* floor(originalWidth * len(target) / len(token)) and the returned center_x is
\* x + floor(returned width / 2); when the token equals the target, or in exact
\* mode, the width is the OCR width unchanged.
C15_PrefixWidthIsFloor ==
    (locator.pc = "done" /\ locator.best_match.found) =>
        LET tok == locator.tokens[SelectedRow]
        IN  IF ~locator.exact_match /\ Lower(tok.text) # Lower(locator.given)
            THEN /\ locator.best_match.width
                      = (tok.width * Len(locator.given)) \div Len(tok.text)
                 /\ locator.best_match.center_x
                      = locator.best_match.x + locator.best_match.width \div 2
            ELSE locator.best_match.width = tok.width

\* ====================================================== create_aligned_image
\* One call of create_aligned_image on a match of find_word_in_image: a box
\* inside a source raster, by an aligner built with a word height, an output
\* size and a background.
MaxSide == 2

MaxWordHeight == 2

MaxOut == 3

\* word_data as lines 128-136 build it from a box.
WordData(x, y, w, h) ==
    [x |-> x, y |-> y, width |-> w, height |-> h,
     center_x |-> x + w \div 2, center_y |-> y + h \div 2]

\* The boxes with w, h >= 0 inside a raster of sw columns and sh rows.
BoxesIn(sw, sh) ==
    { WordData(x, y, w, h) : x \in 0..sw, y \in 0..sh, w \in 0..sw, h \in 0..sh }
       \ { wd \in { WordData(x, y, w, h) : x \in 0..sw, y \in 0..sh, w \in 0..sw, h \in 0..sh } :
              wd.x + wd.width > sw \/ wd.y + wd.height > sh }

Min2(a, b) == IF a <= b THEN a ELSE b

Max2(a, b) == IF a >= b THEN a ELSE b

\* A faulty variant of ScaleOf: a height of 0 is divided by as if it were 1.
ScaleZeroAsOne(target_word_height, height) ==
    FDiv(target_word_height, IF height > 0 THEN height ELSE 1)

\* Line 148: scale = self.target_word_height / word_data['height'] if
\* word_data['height'] > 0 else 1.0.
ScaleOf(target_word_height, height) ==
    IF height > 0 THEN FDiv(target_word_height, height) ELSE FOne

\* Lines 158-168: the canvas of output_height rows and output_width columns,
\* of 4 channels with alpha 0 for 'transparent' and of 3 channels otherwise.
Fill(bg) ==
    [from |-> CASE bg = "dominant" -> "dominant_color"
                [] bg = "black"    -> "black"
                [] OTHER           -> "white",
     at |-> <<>>]

NewCanvas(bg, output_height, output_width) ==
    LET cells == (0..(output_height - 1)) \X (0..(output_width - 1))
    IN  [shape |-> << output_height, output_width, IF bg = "transparent" THEN 4 ELSE 3 >>,
         rgb   |-> [p \in cells |-> Fill(bg)],
         alpha |-> IF bg = "transparent" THEN [p \in cells |-> 0] ELSE <<>>]

\* A NumPy slice a:b of an axis of n elements, as the sequence of its indices:
\* a negative bound counts from the end and both bounds are clipped.
SliceBound(a, n) == IF a < 0 THEN Max2(a + n, 0) ELSE Min2(a, n)

SliceIdx(a, b, n) ==
    [k \in 1..Max2(SliceBound(b, n) - SliceBound(a, n), 0) |-> SliceBound(a, n) + k - 1]

\* Assignment of ns source elements to nd destination elements along an axis.
Broadcasts(ns, nd) == ns = nd \/ ns = 1

\* A faulty variant of DstStart: the paste always starts at the canvas edge.
DstStartAtEdge(output_center, word_center) == 0

\* A faulty variant of DstStart: the offset is not clamped at the canvas edge.
DstStartUnclamped(output_center, word_center) == output_center - word_center

\* Lines 178-179: dst_left and dst_top.
DstStart(output_center, word_center) == Max2(0, output_center - word_center)

\* A faulty variant of AlphaOfPasted: the alpha of the pasted cells is left as it is.
AlphaLeftClear(old) == old

\* Line 190: output[..., 3] = 255.
AlphaOfPasted(old) == 255

\* A faulty variant of Geometry: the source window is not cut at the right and
\* bottom edges of the resized image.
GeometryUnclippedSource(c) ==
    LET output_center_x == c.output_width \div 2
        output_center_y == c.output_height \div 2
        src_left   == Max2(0, c.word_center_x - output_center_x)
        src_top    == Max2(0, c.word_center_y - output_center_y)
        src_right  == c.word_center_x + output_center_x
        src_bottom == c.word_center_y + output_center_y
        dst_left   == DstStart(output_center_x, c.word_center_x)
        dst_top    == DstStart(output_center_y, c.word_center_y)
        copy_width  == Min2(src_right - src_left, c.output_width - dst_left)
        copy_height == Min2(src_bottom - src_top, c.output_height - dst_top)
    IN  [src_left |-> src_left, src_top |-> src_top,
         src_right |-> src_right, src_bottom |-> src_bottom,
         dst_left |-> dst_left, dst_top |-> dst_top,
         copy_width |-> copy_width, copy_height |-> copy_height,
         dst_right |-> dst_left + copy_width, dst_bottom |-> dst_top + copy_height]

\* A faulty variant of Geometry: the source window reaches W - W//2 columns and
\* H - H//2 rows beyond the word centre.
GeometryFullWindow(c) ==
    LET output_center_x == c.output_width \div 2
        output_center_y == c.output_height \div 2
        src_left   == Max2(0, c.word_center_x - output_center_x)
        src_top    == Max2(0, c.word_center_y - output_center_y)
        src_right  == Min2(c.new_width, c.word_center_x + (c.output_width - output_center_x))
        src_bottom == Min2(c.new_height, c.word_center_y + (c.output_height - output_center_y))
        dst_left   == DstStart(output_center_x, c.word_center_x)
        dst_top    == DstStart(output_center_y, c.word_center_y)
        copy_width  == Min2(src_right - src_left, c.output_width - dst_left)
        copy_height == Min2(src_bottom - src_top, c.output_height - dst_top)
    IN  [src_left |-> src_left, src_top |-> src_top,
         src_right |-> src_right, src_bottom |-> src_bottom,
         dst_left |-> dst_left, dst_top |-> dst_top,
         copy_width |-> copy_width, copy_height |-> copy_height,
         dst_right |-> dst_left + copy_width, dst_bottom |-> dst_top + copy_height]

\* Lines 170-198: the source and destination rectangles.
Geometry(c) ==
    LET output_center_x == c.output_width \div 2
        output_center_y == c.output_height \div 2
        src_left   == Max2(0, c.word_center_x - output_center_x)
        src_top    == Max2(0, c.word_center_y - output_center_y)
        src_right  == Min2(c.new_width, c.word_center_x + output_center_x)
        src_bottom == Min2(c.new_height, c.word_center_y + output_center_y)
        dst_left   == DstStart(output_center_x, c.word_center_x)
        dst_top    == DstStart(output_center_y, c.word_center_y)
        copy_width  == Min2(src_right - src_left, c.output_width - dst_left)
        copy_height == Min2(src_bottom - src_top, c.output_height - dst_top)
    IN  [src_left |-> src_left, src_top |-> src_top,
         src_right |-> src_right, src_bottom |-> src_bottom,
         dst_left |-> dst_left, dst_top |-> dst_top,
         copy_width |-> copy_width, copy_height |-> copy_height,
         dst_right |-> dst_left + copy_width, dst_bottom |-> dst_top + copy_height]

\* Lines 186-194: the slice assignment of the paste.
PasteRows(c, g) ==
    [dst |-> SliceIdx(g.dst_top, g.dst_bottom, c.output_height),
     src |-> SliceIdx(g.src_top, g.src_top + g.copy_height, c.new_height)]

PasteCols(c, g) ==
    [dst |-> SliceIdx(g.dst_left, g.dst_right, c.output_width),
     src |-> SliceIdx(g.src_left, g.src_left + g.copy_width, c.new_width)]

PasteFits(c, g) ==
    /\ Broadcasts(Len(PasteRows(c, g).src), Len(PasteRows(c, g).dst))
    /\ Broadcasts(Len(PasteCols(c, g).src), Len(PasteCols(c, g).dst))

SourceOf(axis, k) == IF Len(axis.src) = 1 THEN axis.src[1] ELSE axis.src[k]

PositionIn(axis, d) == CHOOSE k \in 1..Len(axis.dst) : axis.dst[k] = d

Pasted(canvas, bg, c, g) ==
    LET rows   == PasteRows(c, g)
        cols   == PasteCols(c, g)
        inside(p) == /\ \E k \in 1..Len(rows.dst) : rows.dst[k] = p[1]
                     /\ \E k \in 1..Len(cols.dst) : cols.dst[k] = p[2]
    IN  [shape |-> canvas.shape,
         rgb   |-> [p \in DOMAIN canvas.rgb |->
                      IF inside(p)
                      THEN [from |-> "resized",
                            at   |-> << SourceOf(rows, PositionIn(rows, p[1])),
                                        SourceOf(cols, PositionIn(cols, p[2])) >>]
                      ELSE canvas.rgb[p]],
         alpha |-> IF bg = "transparent"
                   THEN [p \in DOMAIN canvas.alpha |->
                           IF inside(p) THEN AlphaOfPasted(canvas.alpha[p])
                           ELSE canvas.alpha[p]]
                   ELSE canvas.alpha]

NoGeometry ==
    [src_left |-> 0, src_top |-> 0, src_right |-> 0, src_bottom |-> 0,
     dst_left |-> 0, dst_top |-> 0, copy_width |-> 0, copy_height |-> 0,
     dst_right |-> 0, dst_bottom |-> 0]

NoCanvas == [shape |-> <<0, 0, 0>>, rgb |-> <<>>, alpha |-> <<>>]

InitCompose ==
    /\ BatchIdle
    /\ background \in Backgrounds
    /\ locator = LocatorIdle
    /\ namer = NamerIdle
    /\ service = ServiceIdle
    /\ \E sw \in 1..MaxSide, sh \in 1..MaxSide, th \in 1..MaxWordHeight,
          ow \in 1..MaxOut, oh \in 1..MaxOut :
          \E wd \in BoxesIn(sw, sh) :
             compositor = [pc |-> "call", shape |-> <<sh, sw>>, word_data |-> wd,
                           target_word_height |-> th, output_width |-> ow,
                           output_height |-> oh, scale |-> FOne,
                           new_width |-> 0, new_height |-> 0,
                           word_center_x |-> 0, word_center_y |-> 0,
                           geometry |-> NoGeometry, pasted |-> FALSE,
                           output |-> NoCanvas]

\* Lines 148-156: the scale, the resized image and the word centre in it.
\* cv2.resize raises for an empty target size, which lines 200-202 turn into
\* ProcessingError.
ComposeResize ==
    /\ compositor.pc = "call"
    /\ LET scale      == ScaleOf(compositor.target_word_height, compositor.word_data.height)
           new_width  == FTrunc(FMulInt(compositor.shape[2], scale))
           new_height == FTrunc(FMulInt(compositor.shape[1], scale))
       IN  compositor' =
             [compositor EXCEPT
                !.pc = IF new_width = 0 \/ new_height = 0 THEN "raised" ELSE "resized",
                !.scale = scale,
                !.new_width = new_width,
                !.new_height = new_height,
                !.word_center_x = FTrunc(FMulInt(compositor.word_data.center_x, scale)),
                !.word_center_y = FTrunc(FMulInt(compositor.word_data.center_y, scale))]
    /\ UNCHANGED << locator, namer, service, batchVars >>

\* Lines 158-198: the canvas, the rectangles, the paste when both extents are
\* positive, return output; a slice assignment of unequal shapes raises, which
\* lines 200-202 turn into ProcessingError.
ComposePaste ==
    /\ compositor.pc = "resized"
    /\ LET canvas == NewCanvas(background, compositor.output_height, compositor.output_width)
           g      == Geometry(compositor)
       IN  IF g.copy_width > 0 /\ g.copy_height > 0
           THEN IF PasteFits(compositor, g)
                THEN compositor' = [compositor EXCEPT
                                      !.pc = "returned", !.geometry = g, !.pasted = TRUE,
                                      !.output = Pasted(canvas, background, compositor, g)]
                ELSE compositor' = [compositor EXCEPT !.pc = "raised", !.geometry = g]
           ELSE compositor' = [compositor EXCEPT
                                 !.pc = "returned", !.geometry = g, !.output = canvas]
    /\ UNCHANGED << locator, namer, service, batchVars >>

NextCompose == ComposeResize \/ ComposePaste

SpecCompose == InitCompose /\ [][NextCompose]_vars

\* The cells of the canvas an aligner of this output size asks for.
Cells == (0..(compositor.output_height - 1)) \X (0..(compositor.output_width - 1))

InRectangle(p) ==
    /\ compositor.geometry.dst_top <= p[1] /\ p[1] < compositor.geometry.dst_bottom
    /\ compositor.geometry.dst_left <= p[2] /\ p[2] < compositor.geometry.dst_right

\* C16: whenever a paste is performed the destination rectangle lies inside
\* the canvas: 0 <= dst_left <= dst_right <= W and 0 <= dst_top <= dst_bottom
\* <= H, for every source size, word box, target height and output size.
C16_PasteInsideCanvas ==
    compositor.pasted =>
        /\ 0 <= compositor.geometry.dst_left
        /\ compositor.geometry.dst_left <= compositor.geometry.dst_right
        /\ compositor.geometry.dst_right <= compositor.output_width
        /\ 0 <= compositor.geometry.dst_top
        /\ compositor.geometry.dst_top <= compositor.geometry.dst_bottom
        /\ compositor.geometry.dst_bottom <= compositor.output_height
        /\ \A p \in Cells : compositor.output.rgb[p].from = "resized" <=> InRectangle(p)

C16_Witness ==
    /\ compositor.pc = "returned"
    /\ compositor.pasted
    /\ compositor.shape = <<1, 1>>
    /\ compositor.word_data.center_x = 1
    /\ compositor.word_data.center_y = 1
    /\ compositor.geometry.copy_width < compositor.output_width
    /\ compositor.geometry.dst_right - compositor.geometry.dst_left >= 1

\* C17: for any box with w, h >= 0 inside any source raster, any word height
\* > 0 and any output size (W > 0, H > 0), create_aligned_image produces a
\* canvas of exactly H rows by W columns, with 4 channels if the background is
\* transparent and 3 channels otherwise; it never fails to produce the canvas.
C17_CanvasAlwaysProduced ==
    compositor.pc \in {"returned", "raised"} =>
        /\ compositor.pc = "returned"
        /\ compositor.output.shape
              = << compositor.output_height, compositor.output_width,
                   IF background = "transparent" THEN 4 ELSE 3 >>
        /\ DOMAIN compositor.output.rgb = Cells

\* C18: in transparent mode the canvas returned by create_aligned_image has
\* alpha = 255 at every pixel inside the pasted rectangle and alpha = 0 at
\* every pixel outside it; when no paste is performed alpha is 0 everywhere.
C18_AlphaMarksPaste ==
    (compositor.pc = "returned" /\ background = "transparent") =>
        \A p \in Cells :
            compositor.output.alpha[p]
               = IF compositor.pasted /\ InRectangle(p) THEN 255 ELSE 0

C18_Witness ==
    /\ compositor.pc = "returned"
    /\ background = "transparent"
    /\ compositor.pasted
    /\ \E p \in Cells : compositor.output.alpha[p] = 255
    /\ \E p \in Cells : compositor.output.alpha[p] = 0

\* x <= y for two naturals given by their limbs.
RECURSIVE BigLeqFrom(_, _, _)
BigLeqFrom(x, y, n) ==
    IF n = 0 THEN TRUE
    ELSE IF x[n] # y[n] THEN x[n] < y[n] ELSE BigLeqFrom(x, y, n - 1)

BigLeq(x, y) ==
    LET tx == BigTrim(x)
        ty == BigTrim(y)
    IN  IF Len(tx) # Len(ty) THEN Len(tx) < Len(ty) ELSE BigLeqFrom(tx, ty, Len(tx))

\* f is the quotient a / b as Python computes it: a double (at most 53
\* significant bits) that equals a / b or, with all 53 bits in use, lies within
\* half a unit of its last place of a / b.
IsQuotient(f, a, b) ==
    LET twice_bf == BigMulSmall(f.m, 2 * b, 0)
        twice_a  == BigShiftLeft(BigFromInt(2 * a), 0 - f.e)
    IN  /\ f.e <= 0
        /\ BigBitLength(f.m) <= 53
        /\ \/ BigTrim(twice_bf) = BigTrim(twice_a)
           \/ /\ BigBitLength(f.m) = 53
              /\ BigLeq(twice_a, BigMulSmall(twice_bf, 1, b))
              /\ BigLeq(twice_bf, BigMulSmall(twice_a, 1, b))

\* C20: when the matched box height is 0 the scale is exactly 1.0, so that the
\* resized size equals the source size and the word centre is unchanged, and
\* the call does not fail; for every height > 0 the scale is
\* targetHeight / height.
C20_ScaleGuard ==
    compositor.pc # "call" =>
        IF compositor.word_data.height = 0
        THEN /\ compositor.scale = [m |-> <<1>>, e |-> 0]
             /\ compositor.new_width = compositor.shape[2]
             /\ compositor.new_height = compositor.shape[1]
             /\ compositor.word_center_x = compositor.word_data.center_x
             /\ compositor.word_center_y = compositor.word_data.center_y
             /\ compositor.pc # "raised"
        ELSE IsQuotient(compositor.scale, compositor.target_word_height,
                        compositor.word_data.height)

C20_Witness ==
    /\ compositor.pc = "returned"
    /\ compositor.word_data.height = 0
    /\ compositor.target_word_height = 2
    /\ compositor.shape = <<2, 2>>
    /\ compositor.new_width = 2
    /\ compositor.word_data.center_x = 1
    /\ compositor.pasted

\* =========================================== the output name and the write
\* Lines 221-240 of process_single_image for one matched image: the output
\* name, cv2.imwrite, and on its failure cv2.imencode and tofile.
MaxNameLen == 3

NameChars == {"a", "j", "."}

\* Path(image_path).name is never empty, "." or "..".
FileNames == SeqsUpTo(NameChars, MaxNameLen) \ { <<>>, <<".">>, <<".", ".">> }

\* Path(image_path).suffix: the name from its last dot on, when that dot is
\* neither the first nor the last character of the name.
Suffix(name) ==
    IF Dots(name) = {} THEN <<>>
    ELSE LET d == Max(Dots(name))
         IN  IF 1 < d /\ d < Len(name) THEN SubSeq(name, d, Len(name)) ELSE <<>>

\* A faulty variant of FallbackExt: the source extension in every mode.
FallbackExtOfSource(bg, filename) == Suffix(filename)

\* Line 232: ext = '.png' if self.background == 'transparent' else
\* Path(image_path).suffix.
FallbackExt(bg, filename) ==
    IF bg = "transparent" THEN <<".","p","n","g">> ELSE Suffix(filename)

InitNames ==
    /\ BatchIdle
    /\ background \in Backgrounds
    /\ locator = LocatorIdle
    /\ compositor = CompositorIdle
    /\ service = ServiceIdle
    /\ \E f \in FileNames :
          namer = [pc |-> "composed", filename |-> f, output_filename |-> <<>>,
                   ext |-> <<>>, fallback |-> FALSE]

\* Lines 221-224: output_filename and output_path.
NameOutput ==
    /\ namer.pc = "composed"
    /\ namer' = [namer EXCEPT !.pc = "imwrite",
                              !.output_filename = OutputFilename(namer.filename, background)]
    /\ UNCHANGED << locator, compositor, service, batchVars >>

\* Lines 226-230: cv2.imwrite writes the file, or returns False or raises.
WriteDirect ==
    /\ namer.pc = "imwrite"
    /\ \E success \in BOOLEAN :
          namer' = [namer EXCEPT !.pc = IF success THEN "written" ELSE "imencode"]
    /\ UNCHANGED << locator, compositor, service, batchVars >>

\* Lines 231-236: ext, cv2.imencode(ext, aligned_image) and tofile to the same
\* output_path; imencode raises for an empty ext, and a failed encoding raises
\* ProcessingError.
WriteFallback ==
    /\ namer.pc = "imencode"
    /\ LET ext == FallbackExt(background, namer.filename)
       IN  \E is_success \in BOOLEAN :
              namer' = [namer EXCEPT
                          !.pc = IF is_success /\ ext # <<>> THEN "written" ELSE "error",
                          !.ext = ext,
                          !.fallback = TRUE]
    /\ UNCHANGED << locator, compositor, service, batchVars >>

NextNames == NameOutput \/ WriteDirect \/ WriteFallback

SpecNames == InitNames /\ [][NextNames]_vars

EndsWith(s, tail) == Len(tail) <= Len(s) /\ SubSeq(s, Len(s) - Len(tail) + 1, Len(s)) = tail

\* C19: in transparent mode the output file name of every matched input ends
\* in ".png", whatever the source extension (none, one, several dots), and in
\* the other modes it is exactly "aligned_" followed by the original file name;
\* the in-memory write fallback encodes for the same extension: ".png" in
\* transparent mode, the extension of the source name otherwise.
C19_ExtensionRule ==
    namer.pc \in {"imwrite", "imencode", "written", "error"} =>
        /\ IF background = "transparent"
           THEN /\ EndsWith(namer.output_filename, <<".","p","n","g">>)
                /\ Len(namer.output_filename) >= Len(<<"a","l","i","g","n","e","d","_">>) + 4
                /\ SubSeq(namer.output_filename, 1, 8) = <<"a","l","i","g","n","e","d","_">>
           ELSE namer.output_filename = <<"a","l","i","g","n","e","d","_">> \o namer.filename
        /\ namer.fallback =>
              namer.ext = IF background = "transparent" THEN <<".","p","n","g">>
                          ELSE Suffix(namer.filename)
        /\ (namer.fallback /\ namer.pc = "written" /\ Suffix(namer.filename) # <<>>)
              => EndsWith(namer.output_filename, namer.ext)

C19_Witness ==
    /\ namer.pc = "written"
    /\ namer.fallback
    /\ background = "transparent"
    /\ namer.filename = <<"a", "j">>
    /\ namer.ext = <<".","p","n","g">>
    /\ namer.output_filename = <<"a","l","i","g","n","e","d","_","a","j",".","p","n","g">>

\* C24: the word is centred: whenever the scaled word centre lies inside the
\* resized raster and a paste is performed, the resized pixel at the word
\* centre is the one copied to canvas pixel (W//2, H//2), whether the centre is
\* left/above or right/below of the canvas centre.
C24_WordCentred ==
    (/\ compositor.pasted
     /\ compositor.word_center_x < compositor.new_width
     /\ compositor.word_center_y < compositor.new_height) =>
        LET centre == << compositor.output_height \div 2, compositor.output_width \div 2 >>
        IN  /\ centre \in DOMAIN compositor.output.rgb
            /\ compositor.output.rgb[centre]
                  = [from |-> "resized",
                     at   |-> << compositor.word_center_y, compositor.word_center_x >>]

C24_Witness ==
    /\ compositor.pc = "returned"
    /\ compositor.pasted
    /\ compositor.word_center_x < compositor.output_width \div 2
    /\ compositor.word_center_y > compositor.output_height \div 2
    /\ compositor.word_center_y < compositor.new_height
    /\ compositor.output.rgb[<< compositor.output_height \div 2,
                                compositor.output_width \div 2 >>].from = "resized"

\* C25: the source crop never leaves the resized raster: whenever a paste is
\* performed, 0 <= src_left, src_left + copy_width <= resizedW, 0 <= src_top
\* and src_top + copy_height <= resizedH, and the source and destination
\* rectangles have the same width and height, so that the slice assignment
\* never fails.
C25_SourceCropInsideResized ==
    /\ compositor.pasted =>
          /\ 0 <= compositor.geometry.src_left
          /\ compositor.geometry.src_left + compositor.geometry.copy_width
                <= compositor.new_width
          /\ 0 <= compositor.geometry.src_top
          /\ compositor.geometry.src_top + compositor.geometry.copy_height
                <= compositor.new_height
          /\ Len(PasteCols(compositor, compositor.geometry).src)
                = Len(PasteCols(compositor, compositor.geometry).dst)
          /\ Len(PasteCols(compositor, compositor.geometry).src)
                = compositor.geometry.copy_width
          /\ Len(PasteRows(compositor, compositor.geometry).src)
                = Len(PasteRows(compositor, compositor.geometry).dst)
          /\ Len(PasteRows(compositor, compositor.geometry).src)
                = compositor.geometry.copy_height
    /\ compositor.pc = "raised" => compositor.new_width = 0 \/ compositor.new_height = 0

C25_Witness ==
    /\ compositor.pc = "returned"
    /\ compositor.pasted
    /\ compositor.geometry.src_left > 0
    /\ compositor.geometry.src_left + compositor.geometry.copy_width = compositor.new_width
    /\ compositor.geometry.copy_width < 2 * (compositor.output_width \div 2)
    /\ compositor.geometry.src_top > 0

\* C29: the pasted region never exceeds 2*(W//2) columns and 2*(H//2) rows and
\* the destination clamp is never the binding one; hence for an odd output
\* width (height) the last canvas column (row) always keeps the background fill.
C29_LastColumnKeepsFill ==
    compositor.pc = "returned" =>
        /\ compositor.geometry.copy_width <= 2 * (compositor.output_width \div 2)
        /\ compositor.geometry.copy_height <= 2 * (compositor.output_height \div 2)
        /\ compositor.geometry.src_right - compositor.geometry.src_left
              <= compositor.output_width - compositor.geometry.dst_left
        /\ compositor.geometry.src_bottom - compositor.geometry.src_top
              <= compositor.output_height - compositor.geometry.dst_top
        /\ compositor.output_width % 2 = 1 =>
              \A p \in Cells : p[2] = compositor.output_width - 1
                                  => compositor.output.rgb[p] = Fill(background)
        /\ compositor.output_height % 2 = 1 =>
              \A p \in Cells : p[1] = compositor.output_height - 1
                                  => compositor.output.rgb[p] = Fill(background)

C29_Witness ==
    /\ compositor.pc = "returned"
    /\ compositor.pasted
    /\ compositor.output_width = 3
    /\ compositor.output_height = 3
    /\ compositor.geometry.copy_width = 2
    /\ compositor.geometry.copy_height = 2
    /\ compositor.new_width >= 3
    /\ compositor.output.rgb[<<2, 2>>] = Fill(background)

\* C27: a cancel() issued while a batch is running is never undone before that
\* batch has observed it: as long as a batch that was in its loop when cancel()
\* was called is still in its loop, the flag is set, also when another
\* process_images call on the same instance is started in the meantime.
C27_CancelStaysSet ==
    \A t \in Callers :
        (cancelSnap[t].at \in LoopPCs /\ pc[t] \in LoopPCs) => cancelled

\* The images find_word_in_image returns None for.
NoWord(path) == ImageKind(path) \in {"undecodable", "notfound"}

\* C30: find_word_in_image never raises: an image that cannot be decoded makes
\* it return None, so that process_single_image records it with the reason of
\* an image that does not contain the word, "Word '<target>' not found", and
\* never as an error; the batch is not left by an exception at such an image.
C30_UndecodableIsNotFound ==
    \A t \in Callers :
        /\ \A j \in 1..Len(results[t]) :
              NoWord(image_paths[t][j]) =>
                 /\ ~results[t][j].success
                 /\ results[t][j].detail \in {"Word not found", "Processing cancelled"}
        /\ (pc[t] = "append" /\ NoWord(Current(t))) =>
              /\ ~result[t].success
              /\ result[t].detail \in {"Word not found", "Processing cancelled"}
              /\ mark[t] = -1 /\ cancelSnap[t] = NoSnap
                    => result[t] = NotFoundEntry(Current(t))
        /\ pc[t] = "failed" => ~NoWord(Current(t))

C30_Witness ==
    \E t \in Callers :
        /\ pc[t] = "completed"
        /\ Len(ret[t].value) = 2
        /\ ImageKind(image_paths[t][1]) = "fallback"
        /\ ImageKind(image_paths[t][2]) = "undecodable"
        /\ ret[t].value[2] = NotFoundEntry(image_paths[t][2])
        /\ ret[t].value[2].detail = "Word not found"

\* ------------------------------------------------------------- termination
\* A step of the call of t once it holds the lock: each per-image step
\* terminates, so a call that can take its next step takes it.
LoopStep(t) ==
    \/ BoundaryCheck(t)
    \/ PsiCheck1(t)
    \/ ReportProgress(t)
    \/ FindWord(t)
    \/ PsiCheck2(t)
    \/ Compose(t)
    \/ Write(t)
    \/ AppendResult(t)

\* Termination does not depend on the background: an aligner without a sink
\* and one with a sink, which may raise.
InitFair == Init /\ background \in {"white", "black"}

\* Line 262 under a fair lock: a waiting call gets the lock when it is free
\* again and again.
SpecFair ==
    /\ InitFair
    /\ [][Next]_vars
    /\ \A t \in Callers : WF_vars(LoopStep(t))
    /\ \A t \in Callers : SF_vars(Acquire(t))

Terminal(t) == pc[t] \in {"completed", "cancelled", "failed"}

\* What a call has done so far: at most len(image_paths) iterations, and one
\* progress event, one entry and one write at most per input.  The counts only
\* grow, so what holds of them at the end held all along.
EachInputOnce(t) ==
    /\ i[t] <= Len(image_paths[t])
    /\ Len(results[t]) <= i[t]
    /\ Len(progress[t]) <= Len(image_paths[t])
    /\ \A j \in 1..Len(image_paths[t]) :
          /\ Cardinality(WritesOf(t, j)) <= 1
          /\ Cardinality({ m \in 1..Len(progress[t]) : progress[t][m].current = j }) <= 1

\* C26: every call of process_images reaches a terminal outcome: once started
\* it returns its list (completed or cancelled) or raises the fatal error,
\* having made at most len(image_paths) iterations and processed each input at
\* most once (no retry).
C26_Terminates ==
    \A t \in Callers :
        (pc[t] \in ActivePCs) ~> (Terminal(t) /\ EachInputOnce(t))

C26_Witness ==
    /\ pc["t1"] = "cancelled"
    /\ pc["t2"] = "completed"
    /\ Len(results["t1"]) = 1
    /\ Len(results["t2"]) = 2
    /\ EachInputOnce("t2")

\* C21: two runs of process_images with the same configuration, the same input
\* list and the same per-image outcomes, each into an empty output directory
\* and without cancellation, end the same way, with the same set of output
\* file names and the same entries one by one, whatever the sink does in
\* either run.
C21_SameRunsSameResults ==
    (ncancels = 0 /\ \A t \in Callers : Terminal(t)) =>
        \A t, u \in Callers :
            /\ pc[t] = pc[u]
            /\ ret[t] = ret[u]
            /\ FilesOf(t) = FilesOf(u)
            /\ Len(results[t]) = Len(results[u])
            /\ \A j \in 1..Len(results[t]) : results[t][j].success = results[u][j].success

C21_Witness ==
    /\ ncancels = 0
    /\ \A t \in Callers : pc[t] = "completed"
    /\ sinkRaised["t1"] /\ ~sinkRaised["t2"]
    /\ Len(ret["t1"].value) = 2
    /\ ret["t1"].value[1].success
    /\ ~ret["t1"].value[2].success
    /\ FilesOf("t2") # {}

\* ============================================================ BackendService
\* One BackendService: the main thread takes the commands of stdin one after
\* the other (run, process_command) and the threads started by
\* handle_process_images run _run_processing beside it, all on the one status
\* record self.status.
MaxCommands == 2

MaxPaths == 2

\* The process_images commands: which required keys the JSON object has, what
\* output_dir is (absent, null, a directory name) and how many of the given
\* image paths exist and how many do not.
ProcessCommands ==
    { [command |-> "process_images", target_word |-> TRUE, image_paths |-> TRUE,
       output_dir |-> "dir", existing |-> e, missing |-> m] :
         e \in 0..MaxPaths, m \in 0..1 }
    \cup
    { [command |-> "process_images", target_word |-> tw, image_paths |-> TRUE,
       output_dir |-> od, existing |-> 1, missing |-> 0] :
         tw \in BOOLEAN, od \in {"absent", "dir"} }
    \cup
    { [command |-> "process_images", target_word |-> TRUE, image_paths |-> FALSE,
       output_dir |-> "dir", existing |-> 0, missing |-> 0] }
    \cup
    { [command |-> "process_images", target_word |-> TRUE, image_paths |-> TRUE,
       output_dir |-> "null", existing |-> e, missing |-> 1] : e \in 0..1 }

CancelCommand ==
    [command |-> "cancel_processing", target_word |-> FALSE, image_paths |-> FALSE,
     output_dir |-> "absent", existing |-> 0, missing |-> 0]

StatusCommand ==
    [command |-> "get_status", target_word |-> FALSE, image_paths |-> FALSE,
     output_dir |-> "absent", existing |-> 0, missing |-> 0]

NoCommand ==
    [command |-> "none", target_word |-> FALSE, image_paths |-> FALSE,
     output_dir |-> "absent", existing |-> 0, missing |-> 0]

\* ProcessingStatus() and its fields; the two lists are kept as their lengths.
NewStatus ==
    [is_processing |-> FALSE, current_image |-> 0, total_images |-> 0,
     processed_images |-> 0, failed_images |-> 0, current_operation |-> "",
     error_message |-> "None"]

\* Lines 122-156 and 192-200: the way handle_process_images takes for a
\* command: the return of lines 127-130 for a missing key, the TypeError of
\* Path(None) at line 135 caught at line 192, the return of lines 153-156 when
\* no path exists, or the start of a batch.
ProcessOutcome(c) ==
    IF ~c.target_word \/ ~c.image_paths \/ c.output_dir = "absent" THEN "missing"
    ELSE IF c.output_dir = "null" THEN "raised"
    ELSE IF c.existing = 0 THEN "novalid"
    ELSE "started"

\* The response of a handler, with what the handler did: whether it started a
\* thread, created an aligner, and the status record before and after it.
Answer(c, success, started, created, before, after) ==
    [command |-> c, success |-> success, started |-> started, created |-> created,
     before |-> before, status |-> after]

Alive(th) == service.threads[th].pc # "done"

InitBackend ==
    /\ BatchIdle
    /\ background = "white"
    /\ locator = LocatorIdle
    /\ compositor = CompositorIdle
    /\ namer = NamerIdle
    /\ service = [pc |-> "ready", status |-> NewStatus, current_aligner |-> 0,
                  processing_thread |-> 0, aligners |-> <<>>, threads |-> <<>>,
                  ncommands |-> 0,
                  answer |-> Answer(NoCommand, TRUE, FALSE, FALSE, NewStatus, NewStatus)]

otherVars == << locator, compositor, namer, batchVars >>

\* handle_process_images, lines 120-200.
HandleProcessImages ==
    /\ service.pc = "ready"
    /\ service.ncommands < MaxCommands
    /\ \E c \in ProcessCommands :
          LET before == service.status
          IN  CASE ProcessOutcome(c) \in {"missing", "novalid"} ->
                     service' = [service EXCEPT
                                   !.ncommands = @ + 1,
                                   !.answer = Answer(c, FALSE, FALSE, FALSE, before, before)]
                [] ProcessOutcome(c) = "raised" ->
                     LET after == [before EXCEPT !.is_processing = FALSE,
                                                 !.error_message = "TypeError"]
                     IN  service' = [service EXCEPT
                                       !.ncommands = @ + 1,
                                       !.status = after,
                                       !.answer = Answer(c, FALSE, FALSE, FALSE, before, after)]
                [] OTHER ->
                     LET after == [NewStatus EXCEPT
                                     !.is_processing = TRUE,
                                     !.total_images = c.existing,
                                     !.current_operation = "Initializing processing..."]
                     IN  service' = [service EXCEPT
                                       !.ncommands = @ + 1,
                                       !.status = after,
                                       !.aligners = Append(@, [cancelled |-> FALSE, locked |-> FALSE]),
                                       !.current_aligner = Len(service.aligners) + 1,
                                       !.threads = Append(@, [pc |-> "start", aligner |-> 0, n |-> c.existing,
                                                              i |-> 0, ok |-> 0, failed |-> 0]),
                                       !.processing_thread = Len(service.threads) + 1,
                                       !.answer = Answer(c, TRUE, TRUE, TRUE, before, after)]
    /\ UNCHANGED otherVars

\* handle_get_status, lines 292-297.
HandleGetStatus ==
    /\ service.pc = "ready"
    /\ service.ncommands < MaxCommands
    /\ service' = [service EXCEPT
                     !.ncommands = @ + 1,
                     !.answer = Answer(StatusCommand, TRUE, FALSE, FALSE,
                                       service.status, service.status)]
    /\ UNCHANGED otherVars

\* handle_cancel_processing, lines 302-308: cancel() on the current aligner,
\* then join(timeout=2.0) when the last thread started is alive.
CancelBegin ==
    /\ service.pc = "ready"
    /\ service.ncommands < MaxCommands
    /\ service' = [service EXCEPT
                     !.ncommands = @ + 1,
                     !.aligners = IF service.current_aligner = 0 THEN @
                                  ELSE [@ EXCEPT ![service.current_aligner].cancelled = TRUE],
                     !.pc = IF service.processing_thread # 0 /\ Alive(service.processing_thread)
                            THEN "cancel_join" ELSE "cancel_set"]
    /\ UNCHANGED otherVars

\* Line 308: join returns when the thread has ended or after 2 seconds,
\* whichever comes first.
CancelJoin ==
    /\ service.pc = "cancel_join"
    /\ service' = [service EXCEPT !.pc = "cancel_set"]
    /\ UNCHANGED otherVars

\* Lines 310-311.
CancelSetStatus ==
    /\ service.pc = "cancel_set"
    /\ service' = [service EXCEPT !.pc = "cancel_answer",
                                  !.status = [@ EXCEPT !.is_processing = FALSE,
                                                       !.current_operation = "Cancelled"]]
    /\ UNCHANGED otherVars

\* Lines 313-316: the answer.
CancelAnswer ==
    /\ service.pc = "cancel_answer"
    /\ service' = [service EXCEPT
                     !.pc = "ready",
                     !.answer = Answer(CancelCommand, TRUE, FALSE, FALSE,
                                       service.status, service.status)]
    /\ UNCHANGED otherVars

\* _run_processing calls process_images of the aligner the service holds at
\* that moment (line 208), which clears its flag (quick_cuts_backend.py, line
\* 306) before it asks for the aligner's lock.
ThreadStart(th) ==
    /\ service.threads[th].pc = "start"
    /\ service' = [service EXCEPT
                     !.threads[th].pc = "acquire",
                     !.threads[th].aligner = service.current_aligner,
                     !.aligners[service.current_aligner].cancelled = FALSE]
    /\ UNCHANGED otherVars

\* with self._processing_lock (quick_cuts_backend.py, line 309).
ThreadAcquire(th) ==
    /\ service.threads[th].pc = "acquire"
    /\ ~service.aligners[service.threads[th].aligner].locked
    /\ service' = [service EXCEPT
                     !.threads[th].pc = "check",
                     !.aligners[service.threads[th].aligner].locked = TRUE]
    /\ UNCHANGED otherVars

\* The loop head of process_images: the end of the list or a set flag leaves
\* the loop and the with block.
ThreadCheck(th) ==
    /\ service.threads[th].pc = "check"
    /\ IF \/ service.threads[th].i >= service.threads[th].n
          \/ service.aligners[service.threads[th].aligner].cancelled
       THEN service' = [service EXCEPT
                          !.threads[th].pc = "finish",
                          !.aligners[service.threads[th].aligner].locked = FALSE]
       ELSE service' = [service EXCEPT !.threads[th].pc = "poll"]
    /\ UNCHANGED otherVars

\* process_single_image up to its progress report: a set flag gives a
\* cancelled entry, otherwise progress_callback (lines 111-118) writes the
\* status record.
ThreadProgress(th) ==
    /\ service.threads[th].pc = "poll"
    /\ IF service.aligners[service.threads[th].aligner].cancelled
       THEN service' = [service EXCEPT !.threads[th].pc = "check",
                                       !.threads[th].i = @ + 1,
                                       !.threads[th].failed = @ + 1]
       ELSE service' = [service EXCEPT
                          !.threads[th].pc = "item",
                          !.status = [@ EXCEPT
                                        !.current_image = service.threads[th].i + 1,
                                        !.total_images = service.threads[th].n,
                                        !.current_operation = "Processing"]]
    /\ UNCHANGED otherVars

\* The rest of process_single_image and the append: a success entry when the
\* word is found and the flag is clear after OCR, a failure entry otherwise.
ThreadItem(th) ==
    /\ service.threads[th].pc = "item"
    /\ \E found \in BOOLEAN :
       IF ~found \/ service.aligners[service.threads[th].aligner].cancelled
       THEN service' = [service EXCEPT !.threads[th].pc = "check",
                                       !.threads[th].i = @ + 1,
                                       !.threads[th].failed = @ + 1]
       ELSE service' = [service EXCEPT !.threads[th].pc = "check",
                                       !.threads[th].i = @ + 1,
                                       !.threads[th].ok = @ + 1]
    /\ UNCHANGED otherVars

\* _run_processing, lines 214-235: the final status and the completed message.
ThreadFinish(th) ==
    /\ service.threads[th].pc = "finish"
    /\ service' = [service EXCEPT
                     !.threads[th].pc = "done",
                     !.status = [@ EXCEPT
                                   !.processed_images = service.threads[th].ok,
                                   !.failed_images = service.threads[th].failed,
                                   !.is_processing = FALSE,
                                   !.current_operation = "Processing complete"]]
    /\ UNCHANGED otherVars

NextBackend ==
    \/ HandleProcessImages
    \/ HandleGetStatus
    \/ CancelBegin
    \/ CancelJoin
    \/ CancelSetStatus
    \/ CancelAnswer
    \/ \E th \in 1..Len(service.threads) : ThreadStart(th)
    \/ \E th \in 1..Len(service.threads) : ThreadAcquire(th)
    \/ \E th \in 1..Len(service.threads) : ThreadCheck(th)
    \/ \E th \in 1..Len(service.threads) : ThreadProgress(th)
    \/ \E th \in 1..Len(service.threads) : ThreadItem(th)
    \/ \E th \in 1..Len(service.threads) : ThreadFinish(th)

SpecBackend == InitBackend /\ [][NextBackend]_vars

\* The four counters of the status record.
Counters(st) ==
    << st.current_image, st.total_images, st.processed_images, st.failed_images >>

MissingParameter(c) ==
    ~c.target_word \/ ~c.image_paths \/ c.output_dir = "absent"

\* C22: a process_images command with a required parameter missing, or with
\* none of its paths existing, is answered success=false, starts no thread,
\* creates no aligner and leaves is_processing and the counters of the status
\* record as they were.
C22_RejectedLeavesStatus ==
    LET a == service.answer
    IN  (a.command.command = "process_images"
           /\ (MissingParameter(a.command) \/ a.command.existing = 0)) =>
            /\ ~a.success
            /\ ~a.started
            /\ ~a.created
            /\ a.status.is_processing = a.before.is_processing
            /\ Counters(a.status) = Counters(a.before)

\* C23: cancel_processing is answered success=true in every service state, and
\* at the answer is_processing is false and current_operation is "Cancelled".
C23_CancelAnswered ==
    LET a == service.answer
    IN  a.command.command = "cancel_processing" =>
            /\ a.success
            /\ ~a.status.is_processing
            /\ a.status.current_operation = "Cancelled"

\* C28: at most one processing thread started by handle_process_images is
\* alive in any reachable state.
C28_OneBatchAtATime ==
    Cardinality({ th \in 1..Len(service.threads) : Alive(th) }) <= 1

====
